---- MODULE Spec2Model ----
(***************************************************************************)
(* Model of bin/json_tree_viewer.py: the interest analyzer                 *)
(* (build_interest_tree), the sibling grouper (process_dict_children), the *)
(* tree renderer (print_tree), the highlighter (highlight_match) and the   *)
(* driver (main).                                                          *)
(*                                                                         *)
(* Strings are sequences of one-character strings.  A JSON value is a      *)
(* record [kind, str, items]: kind is the Python type the code tests with  *)
(* isinstance ("str", "dict", "list", or "other" for int/float/bool/None), *)
(* str the characters of a string, items the ordered entries [key, val] of *)
(* a dict (insertion order) or of a list (key unused).  A path step is a   *)
(* record that is either a string key or an integer index, so that a key   *)
(* never equals an index, as in Python.                                    *)
(***************************************************************************)
EXTENDS Integers, Sequences, FiniteSets, TLC

\* ------------------------------------------------------------------ bounds
MaxNodes == 3
MaxPathLen == 2
MaxSiblings == 3

\* ------------------------------------------------------------ JSON values
JOther == [kind |-> "other", str |-> <<>>, items |-> <<>>]
JStr(s) == [kind |-> "str", str |-> s, items |-> <<>>]
JList(vals) ==
  [kind |-> "list", str |-> <<>>,
   items |-> [i \in 1..Len(vals) |-> [key |-> <<>>, val |-> vals[i]]]]
JDict(entries) == [kind |-> "dict", str |-> <<>>, items |-> entries]
Entry(k, v) == [key |-> k, val |-> v]

KeyStep(k) == [isInt |-> FALSE, key |-> k, idx |-> 0]
IdxStep(i) == [isInt |-> TRUE, key |-> <<>>, idx |-> i]

\* The step under which a container holds its n-th entry (n from 1).
ChildStep(node, n) ==
  IF node.kind = "dict" THEN KeyStep(node.items[n].key) ELSE IdxStep(n - 1)

\* list(node.keys()) of a dict, as steps, in insertion order.
Keys(node) == [n \in 1..Len(node.items) |-> KeyStep(node.items[n].key)]

\* node[key] of a dict holding key.
DictGet(node, step) ==
  node.items[CHOOSE n \in 1..Len(node.items) : KeyStep(node.items[n].key) = step].val

\* ----------------------------------------------------------------- strings
\* StrIn, were the test text.startswith(query).
StrIn_StartsWith(query, text) ==
  Len(query) <= Len(text) /\ SubSeq(text, 1, Len(query)) = query

\* Python's `query in node` on two strings.
StrIn(query, text) ==
  \E i \in 0..(Len(text) - Len(query)) : SubSeq(text, i + 1, i + Len(query)) = query

\* ------------------------------------------------------ build_interest_tree
EmptyTree == <<>>

RECURSIVE build_interest_tree(_, _)
build_interest_tree(node, query) ==
  IF node.kind = "str"
    THEN [has_match |-> StrIn(query, node.str), tree |-> EmptyTree]
  ELSE IF node.kind \in {"dict", "list"}
    THEN LET res == [n \in 1..Len(node.items) |->
                       build_interest_tree(node.items[n].val, query)]
             hit == {n \in 1..Len(node.items) : res[n].has_match}
             my_interest ==
               [s \in {ChildStep(node, n) : n \in hit} |->
                  res[CHOOSE n \in hit : ChildStep(node, n) = s].tree]
         IN [has_match |-> hit # {}, tree |-> my_interest]
  ELSE [has_match |-> FALSE, tree |-> EmptyTree]

\* --------------------------------------------------------- highlight_match
Green == <<"ESC", "[", "9", "2", "m">>
Reset == <<"ESC", "[", "0", "m">>

\* str.replace(query, green + query + reset): the non-overlapping occurrences,
\* leftmost first.
RECURSIVE Replace(_, _)
Replace(text, query) ==
  IF Len(text) < Len(query) THEN text
  ELSE IF SubSeq(text, 1, Len(query)) = query
    THEN Green \o query \o Reset
           \o Replace(SubSeq(text, Len(query) + 1, Len(text)), query)
  ELSE <<Head(text)>> \o Replace(Tail(text), query)

highlight_match(text, query) ==
  IF query = <<>> THEN text ELSE Replace(text, query)

\* ------------------------------------------------------- str() and sorting
Digit == <<"0", "1", "2", "3", "4", "5", "6", "7", "8", "9">>

RECURSIVE NatToStr(_)
NatToStr(n) ==
  IF n < 10 THEN <<Digit[n + 1]>> ELSE NatToStr(n \div 10) \o <<Digit[(n % 10) + 1]>>

\* str(i) / "{}".format(i) of an integer.
IntToStr(i) == IF i < 0 THEN <<"-">> \o NatToStr(0 - i) ELSE NatToStr(i)

\* ord(c) of the characters that occur in keys.
CodePoint ==
  (" " :> 32) @@ ("-" :> 45) @@ ("0" :> 48) @@ ("1" :> 49) @@ ("2" :> 50)
  @@ ("a" :> 97) @@ ("b" :> 98) @@ ("c" :> 99) @@ ("m" :> 109) @@ ("n" :> 110)
  @@ ("p" :> 112) @@ ("q" :> 113) @@ ("r" :> 114) @@ ("v" :> 118)
  @@ ("x" :> 120) @@ ("y" :> 121) @@ ("z" :> 122) @@ ("|" :> 124)

\* Python's s < t on strings: lexicographic by code point.
RECURSIVE StrLess(_, _)
StrLess(s, t) ==
  IF t = <<>> THEN FALSE
  ELSE IF s = <<>> THEN TRUE
  ELSE IF Head(s) # Head(t) THEN CodePoint[Head(s)] < CodePoint[Head(t)]
  ELSE StrLess(Tail(s), Tail(t))

\* ---------------------------------------------------- process_dict_children
NoneStep == [isInt |-> FALSE, key |-> <<>>, idx |-> -1]
NoInterest == [some |-> FALSE, tree |-> EmptyTree]
SomeInterest(t) == [some |-> TRUE, tree |-> t]

\* interest_tree.get(step) when interest_tree is not None, else None.
child_interest(interest_tree, step) ==
  IF interest_tree.some /\ step \in DOMAIN interest_tree.tree
    THEN SomeInterest(interest_tree.tree[step])
    ELSE NoInterest

\* target_path[len(current_path)] when target_path is non-empty and longer
\* than current_path, else None (-1 in print_tree, which tests for an int).
next_target_key(target_path, current_path) ==
  IF Len(target_path) > 0 /\ Len(target_path) > Len(current_path)
    THEN target_path[Len(current_path) + 1]
    ELSE NoneStep

IsSpace(c) == c \in {" ", "\t", "\n", "\r", "\f"}

\* len(re.findall(r'(?<=\S)X(?=\S)', key)) for the one character X.
ValidCount(key, ch) ==
  Cardinality({i \in 2..(Len(key) - 1) :
                 key[i] = ch /\ ~IsSpace(key[i - 1]) /\ ~IsSpace(key[i + 1])})

valid_pipes(key) == ValidCount(key, "|")
valid_dashes(key) == ValidCount(key, "-")

child_keys(node, step) ==
  LET child == DictGet(node, step)
  IN {child.items[n].key : n \in 1..Len(child.items)}

NoGroupId ==
  [num_pipes |-> 0, num_dashes |-> 0, separator |-> "None", child_keys |-> {}]

\* group_id, were the child key set left out of the group's identity.
group_id_NoChildKeys(node, step) ==
  IF valid_pipes(step.key) > 0
    THEN [num_pipes |-> valid_pipes(step.key), num_dashes |-> 0,
          separator |-> "|", child_keys |-> {}]
  ELSE IF valid_dashes(step.key) > 0
    THEN [num_pipes |-> 0, num_dashes |-> valid_dashes(step.key),
          separator |-> "-", child_keys |-> {}]
  ELSE [num_pipes |-> 0, num_dashes |-> 0, separator |-> "None", child_keys |-> {}]

group_id(node, step) ==
  IF valid_pipes(step.key) > 0
    THEN [num_pipes |-> valid_pipes(step.key), num_dashes |-> 0,
          separator |-> "|", child_keys |-> child_keys(node, step)]
  ELSE IF valid_dashes(step.key) > 0
    THEN [num_pipes |-> 0, num_dashes |-> valid_dashes(step.key),
          separator |-> "-", child_keys |-> child_keys(node, step)]
  ELSE [num_pipes |-> 0, num_dashes |-> 0,
        separator |-> "None", child_keys |-> child_keys(node, step)]

is_candidate(node, step) == DictGet(node, step).kind = "dict"

\* KeyFate, were the keys outside the interest tree not skipped.
KeyFate_NoSkip(node, step, next_key, interest_tree) ==
  IF step = next_key THEN "single"
  ELSE IF interest_tree.some /\ step \in DOMAIN interest_tree.tree THEN "single"
  ELSE IF is_candidate(node, step) THEN "group"
  ELSE "single"

\* What the loop over keys does with one key: "skip" (not in the interest
\* tree), "single" (appended to non_grouped_keys) or "group" (appended to
\* groups[group_id]).
KeyFate(node, step, next_key, interest_tree) ==
  IF interest_tree.some /\ step \notin DOMAIN interest_tree.tree THEN "skip"
  ELSE IF step = next_key THEN "single"
  ELSE IF interest_tree.some /\ step \in DOMAIN interest_tree.tree THEN "single"
  ELSE IF is_candidate(node, step) THEN "group"
  ELSE "single"

\* The distinct elements of a sequence, in order of first occurrence (the key
\* order of the dict `groups`).
RECURSIVE FirstOccurrences(_)
FirstOccurrences(seq) ==
  IF seq = <<>> THEN <<>>
  ELSE LET init == FirstOccurrences(SubSeq(seq, 1, Len(seq) - 1))
           last == seq[Len(seq)]
       IN IF \E i \in 1..Len(init) : init[i] = last THEN init
          ELSE Append(init, last)

RECURSIVE Concat(_)
Concat(seqs) == IF seqs = <<>> THEN <<>> ELSE Head(seqs) \o Concat(Tail(seqs))

SingleItem(step) ==
  [type |-> "single", key |-> step, keys |-> <<>>, id |-> NoGroupId]
GroupItem(steps, id) ==
  [type |-> "group", key |-> NoneStep, keys |-> steps, id |-> id]

\* The key all_items_to_process is sorted by.
SortKey(item) ==
  IF item.type = "single" THEN item.key.key ELSE item.keys[1].key

\* SortItems, were the list left unsorted.
SortItems_Unsorted(items) == items

\* list.sort(key=...): stable, ascending.
RECURSIVE SortItems(_)
SortItems(items) ==
  IF items = <<>> THEN <<>>
  ELSE LET init == SortItems(SubSeq(items, 1, Len(items) - 1))
           last == items[Len(items)]
           keep == {i \in 1..Len(init) : ~StrLess(SortKey(last), SortKey(init[i]))}
           n == IF keep = {} THEN 0 ELSE CHOOSE i \in keep : \A j \in keep : j <= i
       IN SubSeq(init, 1, n) \o <<last>> \o SubSeq(init, n + 1, Len(init))

\* all_items_to_process of process_dict_children, after the sort.
all_items_to_process(node, current_path, target_path, interest_tree) ==
  LET keys == Keys(node)
      next_key == next_target_key(target_path, current_path)
      fate(k) == KeyFate(node, k, next_key, interest_tree)
      grouped == SelectSeq(keys, LAMBDA k : fate(k) = "group")
      ids == FirstOccurrences([i \in 1..Len(grouped) |-> group_id(node, grouped[i])])
      groups(id) == SelectSeq(grouped, LAMBDA k : group_id(node, k) = id)
      final_ids == SelectSeq(ids, LAMBDA id : Len(groups(id)) > 1)
      lone_ids == SelectSeq(ids, LAMBDA id : ~(Len(groups(id)) > 1))
      non_grouped_keys ==
        SelectSeq(keys, LAMBDA k : fate(k) = "single")
          \o Concat([i \in 1..Len(lone_ids) |-> groups(lone_ids[i])])
      singles == [i \in 1..Len(non_grouped_keys) |-> SingleItem(non_grouped_keys[i])]
      grps == [i \in 1..Len(final_ids) |-> GroupItem(groups(final_ids[i]), final_ids[i])]
  IN SortItems(singles \o grps)

\* The label of a group's line.
Fld(j) == <<"<", "f", "l", "d">> \o IntToStr(j) \o <<">">>

RECURSIVE Join(_, _)
Join(sep, fields) ==
  IF Len(fields) = 0 THEN <<>>
  ELSE IF Len(fields) = 1 THEN fields[1]
  ELSE fields[1] \o sep \o Join(sep, Tail(fields))

\* label_pattern, were the fields as many as the separators.
label_pattern_OneShort(id) ==
  IF id.separator # "None"
    THEN LET count == IF id.separator = "|" THEN id.num_pipes ELSE id.num_dashes
         IN Join(<<id.separator>>, [j \in 1..count |-> Fld(j)])
    ELSE Fld(1)

label_pattern(id) ==
  IF id.separator # "None"
    THEN LET count == IF id.separator = "|" THEN id.num_pipes ELSE id.num_dashes
         IN Join(<<id.separator>>, [j \in 1..(count + 1) |-> Fld(j)])
    ELSE Fld(1)

group_label(item) ==
  <<"\"">> \o label_pattern(item.id)
    \o <<"\"", " ", "(", "e", "x", ".", ":", " ", "\"">>
    \o item.keys[1].key \o <<"\"", ")">>

\* ------------------------------------------------------------------- state
VARIABLES
  data,          \* the parsed JSON document (main: data)
  path_given,    \* --path was supplied (target_path is not None)
  target_path,   \* the target path, <<>> when none was supplied
  query,         \* the query string, <<>> when none was supplied
  pc,            \* "main", "render", "done" or "nomatch"
  has_match,     \* main: has_match
  interest_tree, \* main: interest_tree
  stack,         \* the pending calls, the next one first
  out            \* what has been printed, one record per line

vars == <<data, path_given, target_path, query, pc, has_match, interest_tree,
          stack, out>>

\* ------------------------------------------------------------ pending calls
NoItem == SingleItem(NoneStep)

PrintFrame(node, current_path, depth, is_last, prefix, interest) ==
  [op |-> "print_tree", node |-> node, current_path |-> current_path,
   depth |-> depth, is_last |-> is_last, prefix |-> prefix,
   interest |-> interest, item |-> NoItem]

\* One group item of the loop of process_dict_children over node's items.
GroupFrame(node, item, current_path, depth, is_last, prefix) ==
  [op |-> "group", node |-> node, current_path |-> current_path,
   depth |-> depth, is_last |-> is_last, prefix |-> prefix,
   interest |-> NoInterest, item |-> item]

\* A subscript that raises (IndexError): no call follows it, the run is stuck
\* in an error state.
RaiseFrame ==
  [op |-> "raise", node |-> JOther, current_path |-> <<>>, depth |-> 0,
   is_last |-> TRUE, prefix |-> <<>>, interest |-> NoInterest, item |-> NoItem]

Connector == <<"+", "-", "-", "-", " ">>
Indent(is_last) == IF is_last THEN <<" ", " ", " ", " ">> ELSE <<"|", " ", " ", " ">>
RootIndent == <<" ", " ", " ", " ", " ">>

\* The loop of process_dict_children over all_items_to_process, as the calls it
\* makes in order.
DictFrames(node, current_path, depth, tpath, prefix, interest) ==
  LET items == all_items_to_process(node, current_path, tpath, interest)
  IN [i \in 1..Len(items) |->
        IF items[i].type = "single"
          THEN PrintFrame(DictGet(node, items[i].key),
                          Append(current_path, items[i].key), depth + 1,
                          i = Len(items), prefix,
                          child_interest(interest, items[i].key))
          ELSE GroupFrame(node, items[i], current_path, depth,
                          i = Len(items), prefix)]

\* sorted(s) of a set of integers.
RECURSIVE SortedInts(_)
SortedInts(s) ==
  IF s = {} THEN <<>>
  ELSE LET m == CHOOSE x \in s : \A y \in s : x <= y
       IN <<m>> \o SortedInts(s \ {m})

\* indices_to_visit, were the target path ignored.
indices_to_visit_FirstOnly(node, current_path, tpath, interest, q) ==
  IF q # <<>> /\ interest.some
    THEN SortedInts({s.idx : s \in {t \in DOMAIN interest.tree : t.isInt}})
    ELSE <<0>>

\* indices_to_visit, were the index not checked against the length.
indices_to_visit_NoUpperBound(node, current_path, tpath, interest, q) ==
  IF q # <<>> /\ interest.some
    THEN SortedInts({s.idx : s \in {t \in DOMAIN interest.tree : t.isInt}})
    ELSE LET next_step == next_target_key(tpath, current_path)
             next_target_index == IF next_step.isInt THEN next_step.idx ELSE -1
         IN IF next_target_index # -1
              THEN IF 0 <= next_target_index THEN <<next_target_index>> ELSE <<0>>
              ELSE <<0>>

\* indices_to_visit of print_tree for a non-empty list.
indices_to_visit(node, current_path, tpath, interest, q) ==
  IF q # <<>> /\ interest.some
    THEN SortedInts({s.idx : s \in {t \in DOMAIN interest.tree : t.isInt}})
    ELSE LET next_step == next_target_key(tpath, current_path)
             next_target_index == IF next_step.isInt THEN next_step.idx ELSE -1
         IN IF next_target_index # -1
              THEN IF 0 <= next_target_index /\ next_target_index < Len(node.items)
                     THEN <<next_target_index>>
                     ELSE <<0>>
              ELSE <<0>>

\* node[index] of a list is defined for -len <= index < len.
InRange(node, index) == 0 - Len(node.items) <= index /\ index < Len(node.items)
ListGet(node, index) ==
  IF index >= 0 THEN node.items[index + 1].val
  ELSE node.items[Len(node.items) + index + 1].val

\* The calls of the loop over indices_to_visit; a subscript out of range raises
\* and the calls after it are never made.
ListFrames(node, current_path, depth, tpath, prefix, interest, q) ==
  LET idx == indices_to_visit(node, current_path, tpath, interest, q)
      bad == {i \in 1..Len(idx) : ~InRange(node, idx[i])}
      stop == IF bad = {} THEN Len(idx) + 1 ELSE CHOOSE i \in bad : \A j \in bad : i <= j
  IN [i \in 1..(IF bad = {} THEN Len(idx) ELSE stop) |->
        IF i = stop THEN RaiseFrame
        ELSE PrintFrame(ListGet(node, idx[i]),
                        Append(current_path, IdxStep(idx[i])), depth + 1,
                        i = Len(idx), prefix,
                        child_interest(interest, IdxStep(idx[i])))]

\* The "on_target_path" flag print_tree computes (and never reads).
on_target_path(current_path, tpath) ==
  IF Len(tpath) > 0
    THEN IF Len(current_path) > Len(tpath) THEN FALSE
         ELSE \A i \in 1..Len(current_path) : current_path[i] = tpath[i]
    ELSE TRUE

\* node_label, were the value of every string leaf appended.
node_label_AlwaysValue(node, current_path, depth, tpath, q) ==
  LET key == current_path[Len(current_path)]
      base == IF depth = 0 THEN <<"[", "r", "o", "o", "t", "]">>
              ELSE IF key.isInt THEN <<"[">> \o IntToStr(key.idx) \o <<"]">>
              ELSE key.key
      mark == IF Len(tpath) > 0 /\ current_path = tpath
                THEN <<" ", "<", "-", "-", "-", " ", "T", "A", "R", "G", "E", "T">>
                ELSE <<>>
      value == IF node.kind = "str"
                 THEN <<":", " ">> \o highlight_match(node.str, q)
                 ELSE <<>>
  IN base \o mark \o value

\* node_label of print_tree.
node_label(node, current_path, depth, tpath, q) ==
  LET key == current_path[Len(current_path)]
      base == IF depth = 0 THEN <<"[", "r", "o", "o", "t", "]">>
              ELSE IF key.isInt THEN <<"[">> \o IntToStr(key.idx) \o <<"]">>
              ELSE key.key
      mark == IF Len(tpath) > 0 /\ current_path = tpath
                THEN <<" ", "<", "-", "-", "-", " ", "T", "A", "R", "G", "E", "T">>
                ELSE <<>>
      value == IF q # <<>> /\ node.kind = "str" /\ StrIn(q, node.str)
                 THEN <<":", " ">> \o highlight_match(node.str, q)
                 ELSE <<>>
  IN base \o mark \o value

Line(kind, line, label, path, keys) ==
  [kind |-> kind, line |-> line, label |-> label, path |-> path, keys |-> keys]

\* ------------------------------------------------------------------ inputs
StrNo == <<"n", "o">>
StrYes == <<"y", "e", "s", " ", "m", "a", "t", "c", "h">>
QMatch == <<"m", "a", "t", "c", "h">>
Scalars == {JOther, JStr(StrNo), JStr(StrYes)}
KeyPool == {<<"a">>, <<"b">>}

\* The injective key sequences of length k over a pool.
KeySeqs(pool, k) ==
  {ks \in [1..k -> pool] : \A i, j \in 1..k : ks[i] = ks[j] => i = j}

Zip(ks, vs) == [i \in 1..Len(vs) |-> Entry(ks[i], vs[i])]

\* The JSON values of exactly n nodes, and the sequences of values of m nodes
\* in all.
RECURSIVE ValuesOfSize(_), ListsOfSize(_)
ListsOfSize(m) ==
  IF m = 0 THEN {<<>>}
  ELSE UNION {{<<v>> \o rest : v \in ValuesOfSize(j), rest \in ListsOfSize(m - j)} :
                j \in 1..m}
ValuesOfSize(n) ==
  (IF n = 1 THEN Scalars ELSE {})
    \cup UNION {{JList(vs)} \cup {JDict(Zip(ks, vs)) : ks \in KeySeqs(KeyPool, Len(vs))} :
                  vs \in ListsOfSize(n - 1)}

Docs == UNION {ValuesOfSize(n) : n \in 1..MaxNodes}

\* The documents of the scenarios of the specification.
ScenarioLeaf ==
  JDict(<<Entry(<<"a">>, JStr(<<"h", "e", "l", "l", "o", " ", "w", "o", "r", "l", "d">>)),
          Entry(<<"b">>, JDict(<<Entry(<<"c">>, JOther)>>))>>)
ScenarioPrune ==
  JList(<<JDict(<<Entry(<<"v">>, JStr(StrNo))>>),
          JDict(<<Entry(<<"v">>, JStr(StrYes))>>)>>)
ScenarioOffPath ==
  JDict(<<Entry(<<"a">>, JList(<<JOther, JOther>>)),
          Entry(<<"b">>, JList(<<JOther, JOther>>))>>)
ScenarioDocs == {ScenarioLeaf, ScenarioPrune, ScenarioOffPath}

Steps == {KeyStep(<<"a">>), IdxStep(0), IdxStep(1), IdxStep(-1), IdxStep(-2)}
PathsUpTo(steps, n) == UNION {[1..k -> steps] : k \in 0..n}
Queries == {<<>>, QMatch}

InitWith(docs, paths, queries) ==
  /\ data \in docs
  /\ path_given \in BOOLEAN
  /\ target_path \in (IF path_given THEN paths ELSE {<<>>})
  /\ query \in queries
  /\ pc = "main"
  /\ has_match = FALSE
  /\ interest_tree = NoInterest
  /\ stack = <<>>
  /\ out = <<>>

Init == InitWith(Docs \cup ScenarioDocs, PathsUpTo(Steps, MaxPathLen), Queries)

\* Objects whose keys follow delimiter patterns and whose values are objects of
\* equal or different key sets.
GroupKeys ==
  {<<"x", "-", "1">>, <<"x", "-", "2">>, <<"a", " ", "-", "b">>,
   <<"x", "|", "y", "|", "z">>, <<"p", "|", "-", "|", "q">>}
ObjN == JDict(<<Entry(<<"n">>, JStr(StrYes))>>)
ObjNM == JDict(<<Entry(<<"n">>, JDict(<<>>)), Entry(<<"m">>, JDict(<<>>))>>)
GroupVals == {ObjN, ObjNM}
GroupDocs ==
  UNION {{JDict(Zip(ks, vs)) : ks \in KeySeqs(GroupKeys, k), vs \in [1..k -> GroupVals]} :
           k \in 0..MaxSiblings}
ScenarioGroup ==
  JDict(<<Entry(<<"x", "-", "1">>, JDict(<<Entry(<<"n">>, JOther)>>)),
          Entry(<<"x", "-", "2">>, JDict(<<Entry(<<"n">>, JOther)>>)),
          Entry(<<"y">>, JDict(<<Entry(<<"n">>, JOther)>>))>>)
GroupSteps == {KeyStep(<<"x", "-", "1">>), KeyStep(<<"n">>)}

InitGroup ==
  InitWith(GroupDocs \cup {ScenarioGroup}, PathsUpTo(GroupSteps, MaxPathLen), Queries)

\* ----------------------------------------------------------------- actions
NoMatchMessage == <<"N", "o", " ", "m", "a", "t", "c", "h", "e", "s">>

\* main(), up to its call of print_tree.
Main ==
  /\ pc = "main"
  /\ LET r == IF query # <<>> THEN build_interest_tree(data, query)
              ELSE [has_match |-> FALSE, tree |-> EmptyTree]
     IN /\ has_match' = r.has_match
        /\ interest_tree' = IF query # <<>> THEN SomeInterest(r.tree) ELSE NoInterest
        /\ IF query # <<>> /\ ~r.has_match
             THEN /\ pc' = "nomatch"
                  /\ out' = <<Line("message", NoMatchMessage, NoMatchMessage, <<>>, <<>>)>>
                  /\ stack' = <<>>
             ELSE /\ pc' = "render"
                  /\ out' = out
                  /\ stack' = <<PrintFrame(data, <<>>, 0, TRUE, <<>>, interest_tree')>>
  /\ UNCHANGED <<data, path_given, target_path, query>>

Continue(frames) ==
  /\ stack' = frames \o Tail(stack)
  /\ pc' = IF stack' = <<>> THEN "done" ELSE "render"

\* One call of print_tree: its line, then the calls it makes for its children.
PrintTree ==
  /\ pc = "render"
  /\ stack # <<>>
  /\ Head(stack).op = "print_tree"
  /\ LET f == Head(stack)
         label == node_label(f.node, f.current_path, f.depth, target_path, query)
         connector == IF f.depth > 0 THEN Connector ELSE <<>>
         child_prefix == IF f.depth > 0 THEN f.prefix \o Indent(f.is_last)
                         ELSE RootIndent
     IN /\ out' = Append(out, Line("node", f.prefix \o connector \o label, label,
                                   f.current_path, <<>>))
        /\ IF f.node.kind = "dict"
             THEN Continue(DictFrames(f.node, f.current_path, f.depth, target_path,
                                      child_prefix, f.interest))
           ELSE IF f.node.kind = "list" /\ f.node.items # <<>>
             THEN Continue(ListFrames(f.node, f.current_path, f.depth, target_path,
                                      child_prefix, f.interest, query))
           ELSE Continue(<<>>)
  /\ UNCHANGED <<data, path_given, target_path, query, has_match, interest_tree>>

\* One group item of process_dict_children: the group's line, then the children
\* of its first member.
PrintGroup ==
  /\ pc = "render"
  /\ stack # <<>>
  /\ Head(stack).op = "group"
  /\ LET f == Head(stack)
         first_key == f.item.keys[1]
         label == group_label(f.item)
         grand_child_prefix == f.prefix \o Indent(f.is_last)
         representative_node == DictGet(f.node, first_key)
         path == Append(f.current_path, first_key)
     IN /\ out' = Append(out, Line("group", f.prefix \o Connector \o label, label,
                                   path, f.item.keys))
        /\ IF representative_node.kind = "dict"
             THEN Continue(DictFrames(representative_node, path, f.depth + 1,
                                      target_path, grand_child_prefix, NoInterest))
             ELSE Continue(<<>>)
  /\ UNCHANGED <<data, path_given, target_path, query, has_match, interest_tree>>

Next == Main \/ PrintTree \/ PrintGroup

Spec == Init /\ [][Next]_vars
SpecGroup == InitGroup /\ [][Next]_vars

\* ------------------------------------------------- what the claims speak of
\* The paths of the nodes of a value, the root's being <<>>.
RECURSIVE PathsOf(_)
PathsOf(v) ==
  {<<>>} \cup UNION {{<<ChildStep(v, n)>> \o p : p \in PathsOf(v.items[n].val)} :
                       n \in 1..Len(v.items)}

RECURSIVE NodeAt(_, _)
NodeAt(v, p) ==
  IF p = <<>> THEN v
  ELSE NodeAt(v.items[CHOOSE n \in 1..Len(v.items) : ChildStep(v, n) = Head(p)].val,
              Tail(p))

IsSubstring(q, s) ==
  \E i \in 0..Len(s) : \E j \in i..Len(s) : SubSeq(s, i + 1, j) = q

\* Some string reachable from v contains q.
Contains(v, q) ==
  \E p \in PathsOf(v) : NodeAt(v, p).kind = "str" /\ IsSubstring(q, NodeAt(v, p).str)

IsPrefix(p, q) == Len(p) <= Len(q) /\ SubSeq(q, 1, Len(p)) = p

Terminated == pc \in {"done", "nomatch"}
ErrorState == stack # <<>> /\ Head(stack).op = "raise"

\* The lines printed for nodes and groups, and the indices of the lines printed
\* for the children of the node at path p.
TreeLines == {i \in 1..Len(out) : out[i].kind \in {"node", "group"}}
ChildLines(p) ==
  {i \in TreeLines : Len(out[i].path) = Len(p) + 1 /\ IsPrefix(p, out[i].path)}
LastStep(p) == p[Len(p)]

\* C1: for a non-empty query, matched is true iff some string reachable from the
\* value contains the query; at every object or array node the interest tree
\* has an entry for a child iff the child's subtree contains such a string, and
\* the entry of a matching string leaf is the empty tree.
C1_InterestTree ==
  (pc # "main" /\ query # <<>>) =>
    /\ has_match = Contains(data, query)
    /\ interest_tree = SomeInterest(build_interest_tree(data, query).tree)
    /\ \A p \in PathsOf(data) :
         LET n == NodeAt(data, p)
             r == build_interest_tree(n, query)
         IN /\ r.has_match = Contains(n, query)
            /\ DOMAIN r.tree =
                 {ChildStep(n, i) : i \in {j \in 1..Len(n.items) :
                                             Contains(n.items[j].val, query)}}
            /\ \A i \in 1..Len(n.items) :
                 (n.items[i].val.kind = "str" /\ Contains(n.items[i].val, query))
                   => r.tree[ChildStep(n, i)] = EmptyTree

C1_Witness ==
  /\ pc = "render"
  /\ query # <<>>
  /\ has_match
  /\ \E p \in PathsOf(data) :
       /\ Len(p) = 2
       /\ NodeAt(data, p).kind = "str"
       /\ IsSubstring(query, NodeAt(data, p).str)
  /\ \E p \in PathsOf(data) :
       NodeAt(data, p).kind = "str" /\ ~IsSubstring(query, NodeAt(data, p).str)

TargetMark == <<" ", "<", "-", "-", "-", " ", "T", "A", "R", "G", "E", "T">>
TargetLines == {i \in 1..Len(out) : IsSubstring(TargetMark, out[i].line)}

\* C3: without a query, for every target path P (the empty one denoting the
\* root) a line containing " <--- TARGET" is emitted iff P denotes a node of the
\* value, and then exactly once, on that node's line.
C3_TargetMarked ==
  (pc = "done" /\ query = <<>> /\ path_given) =>
    IF target_path \in PathsOf(data)
      THEN \E i \in 1..Len(out) :
             /\ TargetLines = {i}
             /\ out[i].kind = "node"
             /\ out[i].path = target_path
      ELSE TargetLines = {}

\* The element a list rendered at path p without a query shows, according to
\* the step of the target path at the list's depth.
ExpectedIndex(node, p) ==
  IF /\ Len(target_path) > Len(p)
     /\ target_path[Len(p) + 1].isInt
     /\ target_path[Len(p) + 1].idx >= 0
     /\ target_path[Len(p) + 1].idx < Len(node.items)
    THEN target_path[Len(p) + 1].idx
    ELSE 0

RenderedLists ==
  {i \in 1..Len(out) :
     out[i].kind = "node" /\ NodeAt(data, out[i].path).kind = "list"}

\* C5: without a query, every rendered non-empty array has exactly one child
\* rendered: the element at the target path's step for this depth when that
\* step exists, is an integer and is in bounds, else element 0; an empty array
\* renders no children.
C5_OneIndex ==
  (pc = "done" /\ query = <<>>) =>
    \A i \in RenderedLists :
      LET p == out[i].path
          node == NodeAt(data, p)
      IN IF node.items = <<>> THEN ChildLines(p) = {}
         ELSE /\ Cardinality(ChildLines(p)) = 1
              /\ \A j \in ChildLines(p) :
                   /\ out[j].kind = "node"
                   /\ LastStep(out[j].path) = IdxStep(ExpectedIndex(node, p))

\* A list of two elements showing its element 1, as the target path says.
C5_Witness ==
  /\ pc = "done"
  /\ query = <<>>
  /\ \E i \in RenderedLists :
       /\ Len(target_path) > Len(out[i].path)
       /\ target_path[Len(out[i].path) + 1] = IdxStep(1)
       /\ \E j \in ChildLines(out[i].path) : LastStep(out[j].path) = IdxStep(1)

\* C6: with a target path and no query, a non-empty array whose own path is not
\* a prefix of the target path renders its element 0.
C6_OffPathFirst ==
  (pc = "done" /\ query = <<>> /\ path_given /\ target_path # <<>>) =>
    \A i \in RenderedLists :
      ~on_target_path(out[i].path, target_path) =>
        \A j \in ChildLines(out[i].path) : LastStep(out[j].path) = IdxStep(0)

LabelRoot == <<"[", "r", "o", "o", "t", "]">>
LabelHello == <<"a", ":", " ", "h", "e", "l", "l", "o", " ", "w", "o", "r", "l", "d">>
ScenarioLeafPaths ==
  << <<>>, <<KeyStep(<<"a">>)>>, <<KeyStep(<<"b">>)>>,
     <<KeyStep(<<"b">>), KeyStep(<<"c">>)>> >>
ScenarioLeafRun == data = ScenarioLeaf /\ ~path_given /\ query = <<>> /\ pc = "done"

\* C7 as stated: {"a": "hello world", "b": {"c": 1}} without path or query
\* gives the lines "[root]", "a: hello world", "b" and, beneath b, "c".
C7_ScenarioAsStated ==
  ScenarioLeafRun =>
    /\ [i \in 1..Len(out) |-> out[i].path] = ScenarioLeafPaths
    /\ [i \in 1..Len(out) |-> out[i].label]
         = <<LabelRoot, LabelHello, <<"b">>, <<"c">>>>

\* C7, amended: the same run gives the lines "[root]", "a", "b" and, beneath b,
\* "c": without a query the line of a string leaf shows the key alone.
C7_Scenario ==
  ScenarioLeafRun =>
    /\ [i \in 1..Len(out) |-> out[i].path] = ScenarioLeafPaths
    /\ [i \in 1..Len(out) |-> out[i].label]
         = <<LabelRoot, <<"a">>, <<"b">>, <<"c">>>>
    /\ [i \in 1..Len(out) |-> out[i].line]
         = <<LabelRoot,
             RootIndent \o Connector \o <<"a">>,
             RootIndent \o Connector \o <<"b">>,
             RootIndent \o Indent(TRUE) \o Connector \o <<"c">>>>

C7_Witness == ScenarioLeafRun /\ Len(out) = 4

\* The lines of the objects whose children were rendered, the keys an entry of
\* such a level stands for, and the first of them.
DictLines == {i \in TreeLines : NodeAt(data, out[i].path).kind = "dict"}
Members(j) ==
  IF out[j].kind = "group" THEN {out[j].keys[k] : k \in 1..Len(out[j].keys)}
  ELSE {LastStep(out[j].path)}
FirstMember(j) ==
  IF out[j].kind = "group" THEN out[j].keys[1] ELSE LastStep(out[j].path)
KeySet(node) == {KeyStep(node.items[n].key) : n \in 1..Len(node.items)}
ValueOf(node, k) ==
  node.items[CHOOSE n \in 1..Len(node.items) : node.items[n].key = k.key].val

\* The occurrences of ch in key whose two neighbours exist and are not
\* whitespace.
Interior(key, ch) ==
  Cardinality({i \in 1..Len(key) :
                 /\ key[i] = ch
                 /\ i > 1 /\ key[i - 1] \notin {" ", "\t", "\n", "\r", "\f"}
                 /\ i < Len(key) /\ key[i + 1] \notin {" ", "\t", "\n", "\r", "\f"}})

\* The keys of the object at path p that may be grouped: the value is an object
\* and the key is not the target path's step at this depth.
Eligible(node, p) ==
  {k \in KeySet(node) :
     /\ ValueOf(node, k).kind = "dict"
     /\ ~(Len(target_path) > Len(p) /\ target_path[Len(p) + 1] = k)}

Separator(key) ==
  IF Interior(key, "|") > 0 THEN "|"
  ELSE IF Interior(key, "-") > 0 THEN "-"
  ELSE "None"

\* The grouping key as C4 states it, with the key's interior dashes counted.
StatedGroupingKey(node, k) ==
  <<Interior(k.key, "|"), Interior(k.key, "-"), Separator(k.key),
    {e.key : e \in {ValueOf(node, k).items[n] : n \in 1..Len(ValueOf(node, k).items)}}>>

\* The grouping key with the dashes counted only for a key without an interior
\* pipe.
AmendedGroupingKey(node, k) ==
  <<Interior(k.key, "|"),
    IF Interior(k.key, "|") > 0 THEN 0 ELSE Interior(k.key, "-"),
    Separator(k.key),
    {e.key : e \in {ValueOf(node, k).items[n] : n \in 1..Len(ValueOf(node, k).items)}}>>

Partitioned(GroupingKey(_, _)) ==
  (pc = "done" /\ query = <<>>) =>
    \A i \in DictLines :
      LET p == out[i].path
          node == NodeAt(data, p)
          groups == {j \in ChildLines(p) : out[j].kind = "group"}
      IN /\ \A k \in KeySet(node) :
              Cardinality({j \in ChildLines(p) : k \in Members(j)}) = 1
         /\ \A j \in ChildLines(p) : Members(j) \subseteq KeySet(node)
         /\ \A j \in groups :
              /\ Cardinality(Members(j)) >= 2
              /\ Cardinality(Members(j)) = Len(out[j].keys)
              /\ Members(j) \subseteq Eligible(node, p)
         /\ \A k1, k2 \in Eligible(node, p) :
              k1 # k2 =>
                ((\E j \in groups : {k1, k2} \subseteq Members(j))
                   <=> GroupingKey(node, k1) = GroupingKey(node, k2))

\* C4 as stated: at every object level rendered without a query, two eligible
\* keys are in the same Group iff their grouping keys (interior pipes, interior
\* dashes, separator, child key set) are equal; classes of two or more make one
\* Group, a class of one is a Single, the target path's step is in no Group and
\* every key is in exactly one entry.
C4_GroupingAsStated == Partitioned(StatedGroupingKey)

\* C4, amended: the same, the dash count of the grouping key being taken as 0
\* for a key that has an interior pipe.
C4_Grouping == Partitioned(AmendedGroupingKey)

\* One level with a group of two keys of equal pipe count and different dash
\* counts, a group excluding the target path's step, and a lone candidate.
C4_Witness ==
  /\ pc = "done"
  /\ query = <<>>
  /\ \E j \in TreeLines :
       /\ out[j].kind = "group"
       /\ \E k1, k2 \in Members(j) : Interior(k1.key, "-") # Interior(k2.key, "-")
  /\ \E i \in DictLines :
       /\ Len(target_path) > Len(out[i].path)
       /\ \E j \in ChildLines(out[i].path) :
            /\ out[j].kind = "node"
            /\ LastStep(out[j].path) = target_path[Len(out[i].path) + 1]
            /\ NodeAt(data, out[j].path).kind = "dict"
            /\ \E k \in Eligible(NodeAt(data, out[i].path), out[i].path) :
                 AmendedGroupingKey(NodeAt(data, out[i].path), k)
                   = AmendedGroupingKey(NodeAt(data, out[i].path), LastStep(out[j].path))

Placeholder(j) == <<"<", "f", "l", "d", Digit[j + 1], ">">>
RECURSIVE Placeholders(_, _)
Placeholders(n, sep) ==
  IF n = 1 THEN Placeholder(1)
  ELSE Placeholders(n - 1, sep) \o <<sep>> \o Placeholder(n)

ExpectedPattern(key) ==
  IF Interior(key, "|") >= 1 THEN Placeholders(Interior(key, "|") + 1, "|")
  ELSE IF Interior(key, "-") >= 1 THEN Placeholders(Interior(key, "-") + 1, "-")
  ELSE Placeholder(1)

\* C8: the label of every Group is "<pattern>" (ex.: "<firstMemberKey>"), the
\* pattern being n+1 placeholders joined by '|' when the members' keys have
\* n >= 1 interior pipes (whatever their dashes), else m+1 placeholders joined
\* by '-' when they have m >= 1 interior dashes, else <fld1>.
C8_GroupLabel ==
  \A j \in TreeLines :
    out[j].kind = "group" =>
      \A k \in Members(j) :
        out[j].label =
          <<"\"">> \o ExpectedPattern(k.key) \o <<"\"">>
            \o <<" ", "(", "e", "x", ".", ":", " ">>
            \o <<"\"">> \o out[j].keys[1].key \o <<"\"">> \o <<")">>

\* A group of keys with two interior pipes, one of them with an interior dash
\* as well.
C8_Witness ==
  /\ pc = "done"
  /\ \E j \in TreeLines :
       /\ out[j].kind = "group"
       /\ \E k \in Members(j) : Interior(k.key, "|") = 2 /\ Interior(k.key, "-") = 1

\* s sorts before t as Python compares strings.
Before(s, t) ==
  \E k \in 0..Len(s) :
    /\ k <= Len(t)
    /\ SubSeq(s, 1, k) = SubSeq(t, 1, k)
    /\ \/ k = Len(s) /\ k < Len(t)
       \/ k < Len(s) /\ k < Len(t) /\ CodePoint[s[k + 1]] < CodePoint[t[k + 1]]

Position(node, k) == CHOOSE n \in 1..Len(node.items) : node.items[n].key = k.key

\* C9: at every object level the entries are emitted in ascending order of the
\* key of a Single and of the first member of a Group, the first member being
\* the first in the object's insertion order; that member is the example of
\* the label and the only one whose children are rendered; every entry's
\* subtree is emitted before the next sibling's line.
C9_Order ==
  pc = "done" =>
    /\ \A i \in DictLines :
         LET p == out[i].path
             node == NodeAt(data, p)
         IN /\ \A j1, j2 \in ChildLines(p) :
                 j1 < j2 => Before(FirstMember(j1).key, FirstMember(j2).key)
            /\ \A j \in ChildLines(p) :
                 /\ out[j].path = Append(p, FirstMember(j))
                 /\ \A k \in Members(j) :
                      /\ Position(node, FirstMember(j)) <= Position(node, k)
                      /\ k # FirstMember(j) =>
                           \A l \in TreeLines : ~IsPrefix(Append(p, k), out[l].path)
                 /\ out[j].kind = "group" =>
                      IsSubstring(<<"(", "e", "x", ".", ":", " ", "\"">>
                                    \o FirstMember(j).key \o <<"\"", ")">>,
                                  out[j].label)
    /\ \A j \in TreeLines :
         /\ out[j].path # <<>> =>
              \E l \in 1..(j - 1) :
                out[l].path = SubSeq(out[j].path, 1, Len(out[j].path) - 1)
         /\ \A k \in TreeLines :
              (j < k /\ IsPrefix(out[j].path, out[k].path)) =>
                \A l \in j..k : IsPrefix(out[j].path, out[l].path)

\* A group whose first member is not its smallest, after a Single that sorts
\* between the two, with the first member's children beneath the group line.
C9_Witness ==
  /\ pc = "done"
  /\ \E g \in TreeLines :
       /\ out[g].kind = "group"
       /\ ChildLines(out[g].path) # {}
       /\ \E k \in Members(g) :
            /\ Before(k.key, FirstMember(g).key)
            /\ \E j \in 1..(g - 1) :
                 /\ out[j].kind = "node"
                 /\ Len(out[j].path) = Len(out[g].path)
                 /\ Before(k.key, LastStep(out[j].path).key)

RECURSIVE NodeCount(_)
RECURSIVE SumOf(_)
SumOf(seq) == IF seq = <<>> THEN 0 ELSE Head(seq) + SumOf(Tail(seq))
NodeCount(v) == 1 + SumOf([n \in 1..Len(v.items) |-> NodeCount(v.items[n].val)])

\* The node a pending call renders, and the nodes left to render in all.
FramePath(f) ==
  IF f.op = "group" THEN Append(f.current_path, f.item.keys[1]) ELSE f.current_path
Remaining ==
  SumOf([n \in 1..Len(stack) |->
           IF stack[n].op = "raise" THEN 0
           ELSE NodeCount(NodeAt(data, FramePath(stack[n])))])

\* The calls a step has made: the head of the new stack, down to what was
\* already pending.
NewFrames == SubSeq(stack', 1, Len(stack') - Len(stack) + 1)

Descends ==
  pc = "render" =>
    /\ \A n \in 1..Len(NewFrames) :
         LET g == NewFrames[n]
             parent == FramePath(Head(stack))
         IN /\ g.op # "raise"
            /\ g.op = "print_tree" =>
                 /\ Len(g.current_path) = Len(parent) + 1
                 /\ IsPrefix(parent, g.current_path)
                 /\ g.current_path \in PathsOf(data)
                 /\ g.node = NodeAt(data, g.current_path)
            /\ g.op = "group" =>
                 /\ g.current_path = parent
                 /\ FramePath(g) \in PathsOf(data)
                 /\ g.node = NodeAt(data, parent)
    /\ Remaining' < Remaining

\* Main, PrintTree or PrintGroup can be taken.
CanStep ==
  \/ pc = "main"
  \/ pc = "render" /\ stack # <<>> /\ Head(stack).op \in {"print_tree", "group"}

NoFailure ==
  /\ ~ErrorState
  /\ ~Terminated => CanStep
  /\ \A i, j \in TreeLines : out[i].path = out[j].path => i = j
  /\ pc = "done" =>
       /\ Len(out) >= 1
       /\ out[1].path = <<>>
       /\ out[1].kind = "node"
       /\ SubSeq(out[1].line, 1, Len(LabelRoot)) = LabelRoot
  /\ (pc = "done" /\ query = <<>>) =>
       \A i \in RenderedLists :
         (/\ Len(target_path) > Len(out[i].path)
          /\ ~target_path[Len(out[i].path) + 1].isInt
          /\ NodeAt(data, out[i].path).items # <<>>)
           => {LastStep(out[j].path) : j \in ChildLines(out[i].path)} = {IdxStep(0)}

\* C10: for every value, target path (malformed ones included) and query,
\* print_tree terminates without an error: as long as the run has not ended a
\* step can be taken, every step lowers the number of nodes left to render,
\* every call descends to a strict child of the current node, no node is
\* rendered twice, the root's line is emitted, and a string step at an array
\* falls back to element 0.
C10_Terminates ==
  /\ []NoFailure
  /\ [][Descends]_vars

\* A finished run over a target path with a string step at an array and an
\* integer step at an object.
C10_Witness ==
  /\ pc = "done"
  /\ Len(target_path) = 2
  /\ \E i \in RenderedLists :
       /\ Len(out[i].path) < 2
       /\ ~target_path[Len(out[i].path) + 1].isInt
       /\ ChildLines(out[i].path) # {}
  /\ \E i \in DictLines :
       /\ Len(out[i].path) < 2
       /\ target_path[Len(out[i].path) + 1].isInt
       /\ ChildLines(out[i].path) # {}

====
